---------------------------- MODULE Spec2Model ----------------------------
(***************************************************************************)
(* Model of the scrutin pipeline of scripts/: sources/an.py (XML parsing,  *)
(* vote extraction, enrichment, dedup, sort, truncation), normalize.py,    *)
(* themes.py and export.py.                                                *)
(*                                                                         *)
(* Python str values are sequences of one-character strings, so that       *)
(* strip, split, lower, substring search, slicing and int() are computed   *)
(* as the code computes them.  None is the one-element sequence None.      *)
(* An XML document is its sequence of elements in document order, each     *)
(* with its depth, its tag (namespace, local name) and its .text.          *)
(***************************************************************************)
EXTENDS Integers, Sequences, FiniteSets, TLC

VARIABLES
    doc,        \* SpecParse: the XML stream handed to _parse_one_xml
    parsed,     \* SpecParse: the list _parse_one_xml returned
    ppc,        \* SpecParse: "start" | "done"
    archive,    \* SpecFetch: the entries of the zip, in namelist order
    limit,      \* SpecFetch: the caller's limit
    acteurs,    \* SpecFetch: person_id -> name (fetch_an_acteurs)
    organes,    \* SpecFetch: organe id -> [name, acronym]
    idx,        \* SpecFetch: number of entries already parsed
    scrutins,   \* SpecFetch: the list being accumulated / returned
    fpc,        \* SpecFetch: "open" | "parse" | "done" | "raised"
    cfg,        \* SpecPipe: the theme config
    items,      \* SpecPipe: the scrutins flowing through generate.main
    index_doc,  \* SpecPipe: data/index.json (None until written)
    people_doc, \* SpecPipe: data/people.json (None until written)
    year_docs,  \* SpecPipe: data/scrutins/<name>.json, name -> document
    by_year,    \* SpecPipe: export_all's by_year entries not yet written, <<year, items>>
    xpc         \* SpecPipe: position in generate.main / export_all

parseVars == <<doc, parsed, ppc>>
fetchVars == <<archive, limit, acteurs, organes, idx, scrutins, fpc>>
pipeVars  == <<cfg, items, index_doc, people_doc, year_docs, by_year, xpc>>
vars == <<parseVars, fetchVars, pipeVars>>

-----------------------------------------------------------------------------
(* Bounds of the model *)

MaxActors == 2      \* acteurRef elements under one bucket of a generated document
MaxScrutins == 2    \* scrutin elements under a container root
DeepExtra == 1      \* how far beyond MaxLevels the deep documents reach
MaxEntries == 3     \* entries in the archive
MaxLimit == 3       \* largest limit tried
MaxItems == 2       \* XML members behind the scrutins handed to normalize, themes, export
MaxThemes == 2      \* themes in the theme config

-----------------------------------------------------------------------------
(* Python values *)

None == << "<None>" >>
Missing == << "<missing key>" >>

\* dict counts is the list of its <<key, value>> items; None for it is NoCounts.
NoCounts == << <<"<None>", 0>> >>

\* The characters the model uses, in code point order.  "^2" stands for the one
\* character U+00B2 (superscript two): str.isdigit() accepts it, int() does not.
Chars ==
    << " ", "(", ")", "+", "-", "0", "1", "2", "3", "4", "5", "6", "7", "8", "9",
       "A", "B", "C", "D", "E", "F", "G", "H", "I", "J", "K", "L", "M",
       "N", "O", "P", "Q", "R", "S", "T", "U", "V", "W", "X", "Y", "Z", "_",
       "a", "b", "c", "d", "e", "f", "g", "h", "i", "j", "k", "l", "m",
       "n", "o", "p", "q", "r", "s", "t", "u", "v", "w", "x", "y", "z",
       "^2" >>

Ord(c) == CHOOSE i \in 1..Len(Chars) : Chars[i] = c

Digits == {"0", "1", "2", "3", "4", "5", "6", "7", "8", "9"}

DigitVal(c) == Ord(c) - Ord("0")

\* str.lower() on one character
LowerChar(c) ==
    IF Ord(c) >= Ord("A") /\ Ord(c) <= Ord("Z")
        THEN Chars[Ord(c) + (Ord("a") - Ord("A"))]
        ELSE c

Lower(s) == [i \in 1..Len(s) |-> LowerChar(s[i])]

RECURSIVE LStrip(_)
LStrip(s) == IF s # <<>> /\ Head(s) = " " THEN LStrip(Tail(s)) ELSE s

RECURSIVE RStrip(_)
RStrip(s) ==
    IF s # <<>> /\ s[Len(s)] = " " THEN RStrip(SubSeq(s, 1, Len(s) - 1)) ELSE s

\* str.strip()
Strip(s) == RStrip(LStrip(s))

\* needle in hay
Contains(hay, needle) ==
    \E i \in 0..(Len(hay) - Len(needle)) :
        SubSeq(hay, i + 1, i + Len(needle)) = needle

\* a < b for Python str (code point order)
RECURSIVE StrLess(_, _)
StrLess(a, b) ==
    IF b = <<>> THEN FALSE
    ELSE IF a = <<>> THEN TRUE
    ELSE IF Head(a) # Head(b) THEN Ord(Head(a)) < Ord(Head(b))
    ELSE StrLess(Tail(a), Tail(b))

\* s[:n]
Prefix(s, n) == SubSeq(s, 1, IF Len(s) < n THEN Len(s) ELSE n)

\* s.split("T")[0]
RECURSIVE SplitT0(_)
SplitT0(s) ==
    IF s = <<>> \/ Head(s) = "T" THEN <<>> ELSE <<Head(s)>> \o SplitT0(Tail(s))

\* the concatenation of a list of lists
RECURSIVE Concat(_)
Concat(ss) == IF ss = <<>> THEN <<>> ELSE Head(ss) \o Concat(Tail(ss))

\* truthiness of an optional str
Truthy(s) == s # None /\ s # <<>>

\* x or y
Or(x, y) == IF Truthy(x) THEN x ELSE y

\* str.isdigit()
IsDigit(s) == s # <<>> /\ \A i \in 1..Len(s) : s[i] \in Digits \cup {"^2"}

\* whether int(s) raises ValueError, for s of digits, sign, underscore, spaces
RECURSIVE DigitsOk(_)
DigitsOk(s) ==
    \/ Len(s) = 1 /\ s[1] \in Digits
    \/ Len(s) >= 2 /\ s[1] \in Digits /\ s[2] \in Digits /\ DigitsOk(Tail(s))
    \/ Len(s) >= 3 /\ s[1] \in Digits /\ s[2] = "_" /\ s[3] \in Digits
                   /\ DigitsOk(Tail(Tail(s)))

Unsigned(s) == IF s # <<>> /\ Head(s) \in {"+", "-"} THEN Tail(s) ELSE s

IntOk(s) == DigitsOk(Unsigned(Strip(s)))

RECURSIVE DigitsVal(_, _)
DigitsVal(s, acc) ==
    IF s = <<>> THEN acc
    ELSE IF Head(s) = "_" THEN DigitsVal(Tail(s), acc)
    ELSE DigitsVal(Tail(s), 10 * acc + DigitVal(Head(s)))

\* int(s), when IntOk(s)
IntVal(s) ==
    LET t == Strip(s)
        v == DigitsVal(Unsigned(t), 0)
    IN IF t # <<>> /\ Head(t) = "-" THEN 0 - v ELSE v

-----------------------------------------------------------------------------
(* XML documents: elements in document order, [d |-> depth, tag |-> <<ns,   *)
(* local>>, text |-> .text].  The root is element 1, at depth 0.            *)

Malformed == << [d |-> 0 - 1, tag |-> <<"", "">>, text |-> <<>>] >>

El(depth, ns, name, text) == [d |-> depth, tag |-> <<ns, name>>, text |-> text]

\* cur.tag.split("}")[-1], local-name()
LocalName(tag) == tag[2]

\* last element of the subtree of n
SubEnd(x, n) ==
    CHOOSE m \in n..Len(x) :
        /\ \A k \in (n + 1)..m : x[k].d > x[n].d
        /\ (m = Len(x) \/ x[m + 1].d <= x[n].d)

\* the descendants of n (without n), in document order
Descendants(x, n) == (n + 1)..SubEnd(x, n)

\* n.getparent(); 0 is None
GetParent(x, n) ==
    IF n = 1 THEN 0
    ELSE CHOOSE p \in 1..(n - 1) :
            /\ x[p].d = x[n].d - 1
            /\ \A q \in (p + 1)..(n - 1) : x[q].d >= x[n].d

\* XPath string(n): the text of n and of its descendants, in document order
RECURSIVE TextFrom(_, _, _)
TextFrom(x, from, to) ==
    IF from > to THEN <<>> ELSE x[from].text \o TextFrom(x, from + 1, to)

StringValue(x, n) == TextFrom(x, n, SubEnd(x, n))

Min(S) == CHOOSE m \in S : \A k \in S : m <= k

Max(S) == CHOOSE m \in S : \A k \in S : k <= m

\* string(.//*[local-name()=name][1]) evaluated at n
XPathFirst(x, n, name) ==
    LET hits == {m \in Descendants(x, n) : LocalName(x[m].tag) = name}
    IN IF hits = {} THEN <<>> ELSE StringValue(x, Min(hits))

\* string(.//*[local-name()=outer]//*[local-name()=inner][1]) evaluated at n
XPathFirstUnder(x, n, outer, inner) ==
    LET outs == {m \in Descendants(x, n) : LocalName(x[m].tag) = outer}
        hits == {m \in Descendants(x, n) :
                    /\ LocalName(x[m].tag) = inner
                    /\ \E o \in outs : m \in Descendants(x, o)}
    IN IF hits = {} THEN <<>> ELSE StringValue(x, Min(hits))

\* _date_only
DateOnly(s) == IF ~Truthy(s) THEN None ELSE SplitT0(Strip(s))

\* _norm_result
NormResult(s) ==
    IF ~Truthy(s) THEN None
    ELSE LET low == Lower(Strip(s))
         IN IF Contains(low, <<"a", "d", "o", "p", "t">>)
                THEN <<"a", "d", "o", "p", "t", "e", "d">>
            ELSE IF Contains(low, <<"r", "e", "j", "e", "t">>)
                THEN <<"r", "e", "j", "e", "c", "t", "e", "d">>
            ELSE low

\* _first_text taking the last match instead of the first
LastText(x, n, local_name) ==
    LET hits == {m \in Descendants(x, n) : LocalName(x[m].tag) = local_name}
        v == IF hits = {} THEN <<>> ELSE Strip(StringValue(x, Max(hits)))
    IN IF v = <<>> THEN None ELSE v

\* _first_text
FirstText(x, n, local_name) ==
    LET v == Strip(XPathFirst(x, n, local_name))
    IN IF v = <<>> THEN None ELSE v

-----------------------------------------------------------------------------
(* _extract_votes *)

FOR == <<"F", "O", "R">>
AGAINST == <<"A", "G", "A", "I", "N", "S", "T">>
ABSTAIN == <<"A", "B", "S", "T", "A", "I", "N">>
NONVOTING == <<"N", "O", "N", "V", "O", "T", "I", "N", "G">>

Positions == {FOR, AGAINST, ABSTAIN, NONVOTING}

bucket_to_pos ==
    [ pour |-> FOR, pours |-> FOR, contre |-> AGAINST, contres |-> AGAINST,
      abstention |-> ABSTAIN, abstentions |-> ABSTAIN,
      nonVotant |-> NONVOTING, nonvotant |-> NONVOTING, nonVotants |-> NONVOTING ]

\* range(0, 30)
MaxLevels == 30

\* the organeRef lookup taking the last organeRef below the ancestor
GroupAtLast(x, cur) ==
    LET hits == {m \in Descendants(x, cur) : LocalName(x[m].tag) = "organeRef"}
    IN IF hits = {} THEN <<>> ELSE Strip(StringValue(x, Max(hits)))

\* the organeRef lookup made at one ancestor: "" when it gives no group
GroupAt(x, cur) == Strip(XPathFirst(x, cur, "organeRef"))

\* the walk without `pos is None`: a farther bucket overwrites the position
RECURSIVE WalkOverwrite(_, _, _, _, _)
WalkOverwrite(x, cur, step, pos, group) ==
    IF step >= MaxLevels THEN <<pos, group>>
    ELSE LET up == GetParent(x, cur) IN
         IF up = 0 THEN <<pos, group>>
         ELSE LET lname == LocalName(x[up].tag)
                  pos2 == IF lname \in DOMAIN bucket_to_pos
                              THEN bucket_to_pos[lname] ELSE pos
                  g == Strip(XPathFirst(x, up, "organeRef"))
                  group2 == IF group = None /\ g # <<>> THEN g ELSE group
              IN IF pos2 # None /\ group2 # None THEN <<pos2, group2>>
                 ELSE WalkOverwrite(x, up, step + 1, pos2, group2)

\* one pass of the loop `for _ in range(0, 30)`, from iteration `step` on;
\* returns <<pos, group>>
RECURSIVE Walk(_, _, _, _, _)
Walk(x, cur, step, pos, group) ==
    IF step >= MaxLevels THEN <<pos, group>>
    ELSE LET up == GetParent(x, cur) IN
         IF up = 0 THEN <<pos, group>>
         ELSE LET lname == LocalName(x[up].tag)
                  pos2 == IF pos = None /\ lname \in DOMAIN bucket_to_pos
                              THEN bucket_to_pos[lname] ELSE pos
                  g == GroupAt(x, up)
                  group2 == IF group = None /\ g # <<>> THEN g ELSE group
              IN IF pos2 # None /\ group2 # None THEN <<pos2, group2>>
                 ELSE Walk(x, up, step + 1, pos2, group2)

\* the acteurRef elements below the scrutin node, in document order
RECURSIVE SeqOfSet(_)
SeqOfSet(S) == IF S = {} THEN <<>> ELSE <<Min(S)>> \o SeqOfSet(S \ {Min(S)})

ActorNodes(x, n) ==
    SeqOfSet({m \in Descendants(x, n) : LocalName(x[m].tag) = "acteurRef"})

Vote(pid, pos, group) ==
    [ person_id |-> pid, position |-> pos, group |-> group,
      constituency |-> None, name |-> None,
      group_name |-> Missing, group_acronym |-> Missing ]

\* the loop over actor_nodes: the votes appended, before dedup
RECURSIVE RawVotes(_, _)
RawVotes(x, actors) ==
    IF actors = <<>> THEN <<>>
    ELSE LET a == Head(actors)
             pid == Strip(x[a].text)
             w == Walk(x, a, 0, None, None)
         IN IF pid = <<>> \/ w[1] = None THEN RawVotes(x, Tail(actors))
            ELSE <<Vote(pid, w[1], w[2])>> \o RawVotes(x, Tail(actors))

VoteKey(v) == <<v.person_id, v.position, v.group>>

\* the dedup loop keyed by person_id alone
RECURSIVE UniqByPerson(_, _)
UniqByPerson(votes, seen) ==
    IF votes = <<>> THEN <<>>
    ELSE IF Head(votes).person_id \in seen THEN UniqByPerson(Tail(votes), seen)
    ELSE <<Head(votes)>> \o UniqByPerson(Tail(votes), seen \cup {Head(votes).person_id})

\* the dedup loop: seen / uniq
RECURSIVE Uniq(_, _)
Uniq(votes, seen) ==
    IF votes = <<>> THEN <<>>
    ELSE IF VoteKey(Head(votes)) \in seen THEN Uniq(Tail(votes), seen)
    ELSE <<Head(votes)>> \o Uniq(Tail(votes), seen \cup {VoteKey(Head(votes))})

ExtractVotes(x, n) == Uniq(RawVotes(x, ActorNodes(x, n)), {})

-----------------------------------------------------------------------------
(* _parse_one_xml *)

AN_LEGISLATURE == <<"1", "7">>

CountNames ==
    << <<"for", "pour">>, <<"against", "contre">>,
       <<"abstention", "abstention">>, <<"nonvoting", "nonVotant">> >>

\* the text count_of(name) looks at
CountText(x, name) == Strip(XPathFirstUnder(x, 1, "decompte", name))

\* the loop filling counts, from the i-th pair on
RECURSIVE CountsFrom(_, _)
CountsFrom(x, i) ==
    IF i > Len(CountNames) THEN <<>>
    ELSE LET v == CountText(x, CountNames[i][2])
         IN (IF IsDigit(v) THEN << <<CountNames[i][1], IntVal(v)>> >> ELSE <<>>)
            \o CountsFrom(x, i + 1)

\* whether the body of the try block raises: etree.parse on a malformed
\* stream, or int(v) on a text str.isdigit() accepts and int() does not
Raises(x) ==
    \/ x = Malformed
    \/ \E i \in 1..Len(CountNames) :
          LET v == CountText(x, CountNames[i][2]) IN IsDigit(v) /\ ~IntOk(v)

ScrutinType(x) ==
    LET t == Strip(XPathFirstUnder(x, 1, "typeScrutin", "libelle"))
    IN IF t # <<>> THEN t ELSE FirstText(x, 1, "typeScrutin")

ResultStatus(x) ==
    LET r == Strip(XPathFirstUnder(x, 1, "syntheseVote", "resultat"))
    IN NormResult(IF r # <<>> THEN r ELSE None)

ScrutinId(numero) == <<"A", "N", "-">> \o AN_LEGISLATURE \o <<"-">> \o numero

\* an except clause returning a placeholder record instead of []
ParseOneXmlPlaceholder(x) ==
    << [ id |-> ScrutinId(<<"U", "N", "K", "N", "O", "W", "N">>),
         date |-> <<"1", "9", "7", "0", "-", "0", "1", "-", "0", "1">>,
         title |-> <<"(", "s", "a", "n", "s", " ", "t", "i", "t", "r", "e", ")">>,
         object |-> None, scrutin_type |-> None, result_status |-> None,
         counts |-> NoCounts, source_url |-> None,
         votes |-> IF Raises(x) THEN <<>> ELSE ExtractVotes(x, 1) ] >>

\* the list returned for one XML stream: el = root
ParseOneXml(x) ==
    IF Raises(x) THEN <<>>
    ELSE LET numero == Or(FirstText(x, 1, "numero"),
                          <<"U", "N", "K", "N", "O", "W", "N">>)
             date == Or(DateOnly(FirstText(x, 1, "dateScrutin")),
                        <<"1", "9", "7", "0", "-", "0", "1", "-", "0", "1">>)
             title == Or(FirstText(x, 1, "objet"),
                         <<"(", "s", "a", "n", "s", " ", "t", "i", "t", "r", "e", ")">>)
             counts == CountsFrom(x, 1)
         IN << [ id |-> ScrutinId(numero),
                 date |-> date,
                 title |-> title,
                 object |-> None,
                 scrutin_type |-> ScrutinType(x),
                 result_status |-> ResultStatus(x),
                 counts |-> IF counts = <<>> THEN NoCounts ELSE counts,
                 source_url |-> None,
                 votes |-> ExtractVotes(x, 1) ] >>

-----------------------------------------------------------------------------
(* The XML streams tried *)

PA1 == <<"P", "A", "1">>
PA2 == <<"P", "A", "2">>
PO0 == <<"P", "O", "0">>
PO1 == <<"P", "O", "1">>
PO2 == <<"P", "O", "2">>
PO3 == <<"P", "O", "3">>
Absent == << "<no element>" >>

\* zero or one element
Opt(depth, ns, name, text) ==
    IF text = Absent THEN <<>> ELSE << El(depth, ns, name, text) >>

RECURSIVE Actors(_, _, _)
Actors(depth, ns, pids) ==
    IF pids = <<>> THEN <<>>
    ELSE << El(depth, ns, "acteurRef", Head(pids)) >> \o Actors(depth, ns, Tail(pids))

ActorTexts == {PA1, <<" ">> \o PA1 \o <<" ">>, <<" ">>}

ActorLists == UNION {[1..k -> ActorTexts] : k \in 1..MaxActors}

\* a scrutin with one group: organeRef elements at several levels, two nested
\* containers around the acteurRef elements, an optional acteurRef outside any
\* bucket and an optional second bucket; with and without a namespace
VoteDocs ==
    { LET ns == IF second THEN "an" ELSE "" IN
      << El(0, ns, "scrutin", <<>>) >>
      \o Opt(1, ns, "organeRef", o0)
      \o << El(1, ns, "groupe", <<>>) >>
      \o Opt(2, ns, "organeRef", o1)
      \o Opt(2, ns, "organeRef", o2)
      \o Opt(2, ns, "acteurRef", stray)
      \o << El(2, ns, outer, <<>>), El(3, ns, inner, <<>>) >>
      \o Actors(4, ns, pids)
      \o Opt(4, ns, "organeRef", o3)
      \o (IF second THEN << El(2, ns, "contres", <<>>), El(3, ns, "acteurRef", PA1) >>
          ELSE <<>>) :
        o0 \in {Absent, <<>>, PO0},
        o1 \in {Absent, <<" ">>, PO1},
        o2 \in {Absent, PO2},
        o3 \in {Absent, PO3},
        stray \in {Absent, PA2},
        outer \in {"pours", "contre", "votes"},
        inner \in {"votant", "abstention", "nonvotants"},
        pids \in ActorLists,
        second \in BOOLEAN }

\* a chain of `len` nested elements above one acteurRef, with bucket tags at
\* levels i and j of the chain (counted from the acteurRef upward)
DeepDoc(len, i, j) ==
    [ k \in 1..(len + 1) |->
        IF k = len + 1 THEN El(len, "an", "acteurRef", PA1)
        ELSE El(k - 1, "an",
                IF len + 1 - k = i THEN "pour"
                ELSE IF len + 1 - k = j THEN "contres"
                ELSE IF k = 1 THEN "scrutin" ELSE "bloc",
                <<>>) ]

DeepDocs ==
    { DeepDoc(len, i, j) :
        len \in (MaxLevels - 1)..(MaxLevels + DeepExtra),
        i \in 0..(MaxLevels + DeepExtra),
        j \in {0, 1, MaxLevels - 1, MaxLevels, MaxLevels + 1} }

D1 == <<"2", "0", "2", "4", "-", "0", "6", "-", "0", "1">>
D2 == <<"2", "0", "2", "5", "-", "0", "1", "-", "0", "2", "T", "1", "0">>

\* the children of one scrutin element
Body(depth, numero, date, objet, count, org, pid) ==
    Opt(depth, "an", "numero", numero)
    \o Opt(depth, "an", "dateScrutin", date)
    \o Opt(depth, "an", "objet", objet)
    \o (IF count = Absent THEN <<>>
        ELSE << El(depth, "an", "decompte", <<>>), El(depth + 1, "an", "pour", count) >>)
    \o Opt(depth, "an", "organeRef", org)
    \o << El(depth, "an", "pours", <<>>), El(depth + 1, "an", "acteurRef", pid) >>

Bodies(depth, counts) ==
    { Body(depth, numero, date, Absent, count, Absent, pid) :
        numero \in {Absent, <<"1">>, <<"2">>},
        date \in {D1, D2},
        count \in counts,
        pid \in {PA1, PA2} }

\* the root is the scrutin
SingleDocs ==
    { << El(0, "an", "scrutin", <<>>) >> \o b :
        b \in Bodies(1, {Absent, <<"5">>, <<"^2">>, <<"1", "_", "0">>}) }

\* the root holds k >= 2 scrutin elements (the legacy shape)
MultiDocs ==
    { << El(0, "an", "scrutins", <<>>) >>
      \o Concat([i \in 1..Len(bs) |-> << El(1, "an", "scrutin", <<>>) >> \o bs[i]]) :
        bs \in UNION {[1..k -> Bodies(2, {Absent})] : k \in 2..MaxScrutins} }

ParseDocs == VoteDocs \cup DeepDocs \cup SingleDocs \cup MultiDocs \cup {Malformed}

-----------------------------------------------------------------------------
(* fetch_an_scrutins *)

\* step 3: the enrichment of one vote
EnrichVote(v, act, org) ==
    LET named == IF v.person_id \in DOMAIN act
                    THEN [v EXCEPT !.name = act[v.person_id].name] ELSE v
    IN IF v.group \in DOMAIN org
          THEN [named EXCEPT !.group_name = org[v.group].name,
                             !.group_acronym = org[v.group].acronym]
          ELSE named

EnrichScrutin(s, act, org) ==
    [s EXCEPT !.votes = [i \in 1..Len(s.votes) |-> EnrichVote(s.votes[i], act, org)]]

Enrich(ss, act, org) == [i \in 1..Len(ss) |-> EnrichScrutin(ss[i], act, org)]

\* by_id[s["id"]] = s for every s; list(by_id.values()): a dict keeps the
\* position of the first insertion of a key and the value of the last
RECURSIVE DedupFrom(_, _, _)
DedupFrom(ss, i, seen) ==
    IF i > Len(ss) THEN <<>>
    ELSE IF ss[i].id \in seen THEN DedupFrom(ss, i + 1, seen)
    ELSE LET last == Max({j \in i..Len(ss) : ss[j].id = ss[i].id})
         IN <<ss[last]>> \o DedupFrom(ss, i + 1, seen \cup {ss[i].id})

\* dedup keeping the first record of each id
RECURSIVE FirstWinsFrom(_, _, _)
FirstWinsFrom(ss, i, seen) ==
    IF i > Len(ss) THEN <<>>
    ELSE IF ss[i].id \in seen THEN FirstWinsFrom(ss, i + 1, seen)
    ELSE <<ss[i]>> \o FirstWinsFrom(ss, i + 1, seen \cup {ss[i].id})

DedupFirstWins(ss) == FirstWinsFrom(ss, 1, {})

DedupById(ss) == DedupFrom(ss, 1, {})

\* (a["date"], a["id"]) < (b["date"], b["id"])
KeyLess(a, b) ==
    \/ StrLess(a.date, b.date)
    \/ a.date = b.date /\ StrLess(a.id, b.id)

\* list.sort(key=(date, id), reverse=True): stable, descending
RECURSIVE InsertDesc(_, _)
InsertDesc(sorted, s) ==
    IF sorted = <<>> THEN <<s>>
    ELSE IF KeyLess(Head(sorted), s) THEN <<s>> \o sorted
    ELSE <<Head(sorted)>> \o InsertDesc(Tail(sorted), s)

RECURSIVE SortFrom(_, _, _)
SortFrom(ss, i, sorted) ==
    IF i > Len(ss) THEN sorted ELSE SortFrom(ss, i + 1, InsertDesc(sorted, ss[i]))

\* the sort without reverse=True
RECURSIVE InsertAsc(_, _)
InsertAsc(sorted, s) ==
    IF sorted = <<>> THEN <<s>>
    ELSE IF KeyLess(s, Head(sorted)) THEN <<s>> \o sorted
    ELSE <<Head(sorted)>> \o InsertAsc(Tail(sorted), s)

RECURSIVE SortAscFrom(_, _, _)
SortAscFrom(ss, i, sorted) ==
    IF i > Len(ss) THEN sorted ELSE SortAscFrom(ss, i + 1, InsertAsc(sorted, ss[i]))

SortAsc(ss) == SortAscFrom(ss, 1, <<>>)

SortDesc(ss) == SortFrom(ss, 1, <<>>)

\* ss[:n]
Slice(ss, n) ==
    IF n >= 0 THEN SubSeq(ss, 1, IF n < Len(ss) THEN n ELSE Len(ss))
    ELSE SubSeq(ss, 1, Len(ss) + n)

\* the function from the end of the parsing loop to its return
FinishFetch(ss, act, org, lim) == Slice(SortDesc(DedupById(Enrich(ss, act, org))), lim)

\* the scrutins list after the loop over the given XML members
ParseAll(entries) == Concat([i \in 1..Len(entries) |-> ParseOneXml(entries[i])])

\* fetch_an_scrutins on an archive: <<"raised", []>> for RuntimeError
FetchOutcome(entries, act, org, lim) ==
    IF entries = <<>> THEN <<"raised", <<>>>>
    ELSE <<"done", FinishFetch(ParseAll(entries), act, org, lim)>>

-----------------------------------------------------------------------------
(* normalize.py, themes.py *)

\* normalize_an
NormalizeOne(s) ==
    [ id |-> s.id, chamber |-> <<"A", "N">>, date |-> s.date, title |-> s.title,
      object |-> s.object, scrutin_type |-> s.scrutin_type,
      result_status |-> s.result_status, counts |-> s.counts, themes |-> <<>>,
      source_url |-> s.source_url, votes |-> s.votes ]

NormalizeAn(raw) == [i \in 1..Len(raw) |-> NormalizeOne(raw[i])]

\* what an f-string writes for a value: str(None) is "None"
Format(v) == IF v = None THEN <<"N", "o", "n", "e">> ELSE v

\* hay = f'{s.get("title","")} {s.get("object","")}'.lower()
Haystack(s) == Lower(Format(s.title) \o <<" ">> \o Format(s.object))

\* the loop over themes: found, in config order
RECURSIVE Found(_, _, _)
Found(hay, themes, i) ==
    IF i > Len(themes) THEN <<>>
    ELSE (IF \E k \in 1..Len(themes[i].keywords) :
                Contains(hay, Lower(themes[i].keywords[k]))
            THEN <<themes[i].slug>> ELSE <<>>)
         \o Found(hay, themes, i + 1)

\* sorted(S) for a set of str
RECURSIVE SortedStrings(_)
SortedStrings(S) ==
    IF S = {} THEN <<>>
    ELSE LET m == CHOOSE a \in S : \A b \in S : a = b \/ StrLess(a, b)
         IN <<m>> \o SortedStrings(S \ {m})

Range(f) == {f[i] : i \in DOMAIN f}

\* the loop body normalising the override like the keyword result
AssignOneSortedOverride(s, config) ==
    IF s.id \in DOMAIN config.overrides
        THEN [s EXCEPT !.themes = SortedStrings(Range(config.overrides[s.id]))]
        ELSE [s EXCEPT !.themes =
                SortedStrings(Range(Found(Haystack(s), config.themes, 1)))]

\* the body of the loop of assign_themes for one scrutin
AssignOne(s, config) ==
    IF s.id \in DOMAIN config.overrides
        THEN [s EXCEPT !.themes = config.overrides[s.id]]
        ELSE [s EXCEPT !.themes =
                SortedStrings(Range(Found(Haystack(s), config.themes, 1)))]

\* assign_themes
AssignThemes(ss, config) == [i \in 1..Len(ss) |-> AssignOne(ss[i], config)]

-----------------------------------------------------------------------------
(* export.py *)

GeneratedAt == <<"2", "0", "2", "6">>

IndexItem(s) ==
    [ id |-> s.id, chamber |-> s.chamber, date |-> s.date, title |-> s.title,
      scrutin_type |-> s.scrutin_type, result_status |-> s.result_status,
      counts |-> s.counts, themes |-> s.themes, source_url |-> s.source_url ]

\* index.json
IndexDoc(ss) ==
    [ generated_at |-> GeneratedAt,
      scrutins |-> SortDesc([i \in 1..Len(ss) |-> IndexItem(ss[i])]) ]

\* the votes of all scrutins in scan order, each with its scrutin's chamber
ScanVotes(ss) ==
    Concat([i \in 1..Len(ss) |->
              [k \in 1..Len(ss[i].votes) |-> <<ss[i].chamber, ss[i].votes[k]>>]])

\* one iteration of the people_map loop; people_map is the list of its
\* values in insertion order
PeoplePut(map, chamber, v) ==
    LET known == \E i \in 1..Len(map) : map[i].person_id = v.person_id
        m1 == IF known THEN map
              ELSE Append(map, [ person_id |-> v.person_id, name |-> v.name,
                                 chamber |-> chamber, group |-> Missing,
                                 constituency |-> Missing ])
        at == CHOOSE i \in 1..Len(m1) : m1[i].person_id = v.person_id
        m2 == IF Truthy(v.group) THEN [m1 EXCEPT ![at].group = v.group] ELSE m1
        m3 == IF Truthy(v.constituency)
                 THEN [m2 EXCEPT ![at].constituency = v.constituency] ELSE m2
    IN IF Truthy(v.name) THEN [m3 EXCEPT ![at].name = v.name] ELSE m3

RECURSIVE PeopleMap(_, _, _)
PeopleMap(scan, i, map) ==
    IF i > Len(scan) THEN map
    ELSE PeopleMap(scan, i + 1, PeoplePut(map, scan[i][1], scan[i][2]))

\* ((p.get("name") or ""), p["person_id"]) < the same of q
PersonLess(p, q) ==
    LET pn == Or(p.name, <<>>)
        qn == Or(q.name, <<>>)
    IN StrLess(pn, qn) \/ (pn = qn /\ StrLess(p.person_id, q.person_id))

\* sorted(..., key=...): stable, ascending
RECURSIVE InsertPerson(_, _)
InsertPerson(sorted, p) ==
    IF sorted = <<>> THEN <<p>>
    ELSE IF PersonLess(p, Head(sorted)) THEN <<p>> \o sorted
    ELSE <<Head(sorted)>> \o InsertPerson(Tail(sorted), p)

RECURSIVE SortPeople(_, _, _)
SortPeople(ps, i, sorted) ==
    IF i > Len(ps) THEN sorted ELSE SortPeople(ps, i + 1, InsertPerson(sorted, ps[i]))

\* people.json
PeopleDoc(ss) ==
    [ generated_at |-> GeneratedAt,
      people |-> SortPeople(PeopleMap(ScanVotes(ss), 1, <<>>), 1, <<>>) ]

\* whether int(s["date"][:4]) raises ValueError for some scrutin
YearRaises(ss) == \E i \in 1..Len(ss) : ~IntOk(Prefix(ss[i].date, 4))

Year(s) == IntVal(Prefix(s.date, 4))

\* by_year after the partition loop: <<year, items>> in insertion order
RECURSIVE ByYear(_, _, _)
ByYear(ss, i, acc) ==
    IF i > Len(ss) THEN acc
    ELSE LET y == Year(ss[i]) IN
         IF \E k \in 1..Len(acc) : acc[k][1] = y
            THEN LET at == CHOOSE k \in 1..Len(acc) : acc[k][1] = y
                 IN ByYear(ss, i + 1, [acc EXCEPT ![at][2] = Append(@, ss[i])])
            ELSE ByYear(ss, i + 1, Append(acc, <<y, <<ss[i]>> >>))

\* str(n) for an int
RECURSIVE NatToStr(_)
NatToStr(n) ==
    IF n < 10 THEN <<Chars[Ord("0") + n]>>
    ELSE NatToStr(n \div 10) \o <<Chars[Ord("0") + (n % 10)]>>

IntToStr(n) == IF n < 0 THEN <<"-">> \o NatToStr(0 - n) ELSE NatToStr(n)

\* the document written to scrutins/<year>.json
YearDoc(year, its) == [ year |-> year, scrutins |-> SortDesc(its) ]

-----------------------------------------------------------------------------
(* SpecParse: _parse_one_xml applied to one XML stream *)

IdleParse == doc = Malformed /\ parsed = <<>> /\ ppc = "idle"

IdleFetch ==
    /\ archive = <<>> /\ limit = 0 /\ acteurs = <<>> /\ organes = <<>>
    /\ idx = 0 /\ scrutins = <<>> /\ fpc = "idle"

IdlePipe ==
    /\ cfg = <<>> /\ items = <<>> /\ index_doc = None /\ people_doc = None
    /\ year_docs = <<>> /\ by_year = <<>> /\ xpc = "idle"

InitParse ==
    /\ doc \in ParseDocs
    /\ parsed = <<>>
    /\ ppc = "start"
    /\ IdleFetch /\ IdlePipe

ParseStream ==
    /\ ppc = "start"
    /\ parsed' = ParseOneXml(doc)
    /\ ppc' = "done"
    /\ UNCHANGED <<doc, fetchVars, pipeVars>>

NextParse == ParseStream

SpecParse == InitParse /\ [][NextParse]_vars

-----------------------------------------------------------------------------
(* Properties of _parse_one_xml and _extract_votes (SpecParse).  They are   *)
(* stated over the document itself: ancestors by depth, not by the walk.    *)

Parsed == ppc = "done" /\ parsed # <<>>

\* p is a proper ancestor of a
IsAncestor(x, p, a) ==
    p < a /\ x[p].d < x[a].d /\ \A q \in (p + 1)..a : x[q].d > x[p].d

\* the ancestors of a that the bounded walk can see
NearAncestors(x, a) ==
    {p \in 1..(a - 1) : IsAncestor(x, p, a) /\ x[a].d - x[p].d <= MaxLevels}

\* the actor references with a non-empty trimmed id
ActorRefs(x) ==
    {a \in 2..Len(x) : LocalName(x[a].tag) = "acteurRef" /\ Strip(x[a].text) # <<>>}

BucketAncestors(x, a) ==
    {p \in NearAncestors(x, a) : LocalName(x[p].tag) \in DOMAIN bucket_to_pos}

\* the position of the closest bucket ancestor
ClosestPos(x, a) == bucket_to_pos[LocalName(x[Max(BucketAncestors(x, a))].tag)]

VotesOf(recs) == {recs[1].votes[i] : i \in 1..Len(recs[1].votes)}

\* C3: a vote is emitted only for an actor reference that has a bucket
\* ancestor within MaxLevels levels, its position is the one of the closest
\* such ancestor and is one of the four positions, and an actor reference
\* without such an ancestor contributes no vote.
C3_PositionFromClosestBucket ==
    Parsed =>
        /\ \A v \in VotesOf(parsed) : v.position \in Positions
        /\ {<<v.person_id, v.position>> : v \in VotesOf(parsed)}
            = {<<Strip(doc[a].text), ClosestPos(doc, a)>> :
                  a \in {b \in ActorRefs(doc) : BucketAncestors(doc, b) # {}}}

\* an actor reference below two bucket ancestors of different positions was
\* parsed, and so was one without any bucket ancestor in reach
C3_Witness ==
    /\ Parsed
    /\ \E a \in ActorRefs(doc) :
          \E p, q \in BucketAncestors(doc, a) :
              bucket_to_pos[LocalName(doc[p].tag)] # bucket_to_pos[LocalName(doc[q].tag)]
    /\ \E a \in ActorRefs(doc) : BucketAncestors(doc, a) = {}
    /\ VotesOf(parsed) # {}

\* the votes before the dedup loop
Appended == RawVotes(doc, ActorNodes(doc, 1))

FirstIndex(votes, key) == Min({i \in 1..Len(votes) : VoteKey(votes[i]) = key})

\* C4: the returned votes hold each triple (person_id, position, group) once,
\* every appended triple is kept, the record kept is the first appended with
\* that triple, and the kept records are in the order of first occurrence.
C4_DedupFirstOccurrence ==
    Parsed =>
        LET out == parsed[1].votes IN
        /\ \A i, j \in 1..Len(out) : i # j => VoteKey(out[i]) # VoteKey(out[j])
        /\ {VoteKey(out[i]) : i \in 1..Len(out)}
            = {VoteKey(Appended[i]) : i \in 1..Len(Appended)}
        /\ \A i \in 1..Len(out) : out[i] = Appended[FirstIndex(Appended, VoteKey(out[i]))]
        /\ \A i, j \in 1..Len(out) :
              i < j => FirstIndex(Appended, VoteKey(out[i]))
                        < FirstIndex(Appended, VoteKey(out[j]))

\* a duplicate triple was collapsed and two different triples of one person
\* were both kept
C4_Witness ==
    /\ Parsed
    /\ Len(Appended) > Len(parsed[1].votes)
    /\ \E v, w \in VotesOf(parsed) : v.person_id = w.person_id /\ v # w

\* the organeRef elements below p
OrganeRefs(x, p) ==
    {m \in (p + 1)..Len(x) : IsAncestor(x, p, m) /\ LocalName(x[m].tag) = "organeRef"}

\* the trimmed text of the first organeRef below p, "" without one
FirstOrgane(x, p) ==
    IF OrganeRefs(x, p) = {} THEN <<>> ELSE Strip(StringValue(x, Min(OrganeRefs(x, p))))

\* the ancestors in reach whose first organeRef has a non-empty trimmed text
GroupAncestors(x, a) == {p \in NearAncestors(x, a) : FirstOrgane(x, p) # <<>>}

ClosestGroup(x, a) ==
    IF GroupAncestors(x, a) = {} THEN None
    ELSE FirstOrgane(x, Max(GroupAncestors(x, a)))

Emitted(x) == {a \in ActorRefs(x) : BucketAncestors(x, a) # {}}

\* C10 (amended): the group of a vote is the trimmed text of the first
\* organeRef, in document order, below the closest ancestor within MaxLevels
\* levels whose first organeRef has a non-empty trimmed text, and None when
\* no ancestor in reach has one.
C10_GroupFromFirstOrganeRef ==
    Parsed =>
        {<<v.person_id, v.group>> : v \in VotesOf(parsed)}
            = {<<Strip(doc[a].text), ClosestGroup(doc, a)>> : a \in Emitted(doc)}

\* the ancestors in reach with some organeRef of non-empty trimmed text below
AnyGroupAncestors(x, a) ==
    {p \in NearAncestors(x, a) :
        \E m \in OrganeRefs(x, p) : Strip(StringValue(x, m)) # <<>>}

\* C10 (as claimed): the group is the text of a non-empty organeRef below the
\* closest ancestor that has any non-empty organeRef below it, and None only
\* when no ancestor in reach has one.
C10_GroupFromAnyOrganeRef ==
    Parsed =>
        \A v \in VotesOf(parsed) :
            \E a \in Emitted(doc) :
                /\ Strip(doc[a].text) = v.person_id
                /\ IF AnyGroupAncestors(doc, a) = {} THEN v.group = None
                   ELSE \E m \in OrganeRefs(doc, Max(AnyGroupAncestors(doc, a))) :
                           /\ Strip(StringValue(doc, m)) # <<>>
                           /\ v.group = Strip(StringValue(doc, m))

\* a vote took its group from the closest of two ancestors that both have a
\* non-empty first organeRef
C10_Witness ==
    /\ Parsed
    /\ \E a \in Emitted(doc) :
          /\ Cardinality({FirstOrgane(doc, p) : p \in GroupAncestors(doc, a)}) >= 2
          /\ \E v \in VotesOf(parsed) : v.group = ClosestGroup(doc, a)

\* the scrutin elements directly below the root
ScrutinChildren(x) ==
    {m \in 2..Len(x) : x[m].d = 1 /\ LocalName(x[m].tag) = "scrutin"}

LegacyShape(x) ==
    x # Malformed /\ LocalName(x[1].tag) # "scrutin" /\ Cardinality(ScrutinChildren(x)) >= 2

Named(x, name) == {m \in 2..Len(x) : LocalName(x[m].tag) = name}

-----------------------------------------------------------------------------
(* SpecFetch: fetch_an_scrutins over one archive *)

Names == [name : {<<"A", "n", "n">>}]

RegistryActeurs == [{PA1} -> Names]

RegistryOrganes ==
    [{PO1} -> [name : {<<"G", "r", "o", "u", "p", "e">>}, acronym : {<<"G", "R">>}]]

\* the XML members of the archive: scrutins that share ids and dates, one
\* without numero, a stream that does not parse, one whose tally makes int() raise
FetchEntries ==
    { << El(0, "an", "scrutin", <<>>) >> \o Body(1, <<"1">>, D1, Absent, Absent, PO1, PA1),
      << El(0, "an", "scrutin", <<>>) >> \o Body(1, <<"1">>, D2, Absent, <<"5">>, Absent, PA2),
      << El(0, "an", "scrutin", <<>>) >> \o Body(1, <<"2">>, D1, Absent, Absent, PO2, PA2),
      << El(0, "an", "scrutin", <<>>) >> \o Body(1, <<"2">>, D2, Absent, Absent, PO1, PA1),
      << El(0, "an", "scrutin", <<>>) >> \o Body(1, Absent, D1, Absent, Absent, Absent, PA1),
      << El(0, "an", "scrutin", <<>>) >> \o Body(1, <<"2">>, D2, Absent, <<"^2">>, Absent, PA1),
      Malformed }

Archives == UNION {[1..k -> FetchEntries] : k \in 0..MaxEntries}

InitFetch ==
    /\ archive \in Archives
    /\ limit \in 0..MaxLimit
    /\ acteurs \in RegistryActeurs
    /\ organes \in RegistryOrganes
    /\ idx = 0
    /\ scrutins = <<>>
    /\ fpc = "open"
    /\ IdleParse /\ IdlePipe

\* xml_files is empty: RuntimeError
NoXmlFound ==
    /\ fpc = "open"
    /\ archive = <<>>
    /\ fpc' = "raised"
    /\ UNCHANGED <<archive, limit, acteurs, organes, idx, scrutins, parseVars, pipeVars>>

\* one iteration of the loop over xml_files: scrutins.extend(_parse_one_xml(f))
ParseEntry ==
    /\ fpc \in {"open", "parse"}
    /\ idx < Len(archive)
    /\ scrutins' = scrutins \o ParseOneXml(archive[idx + 1])
    /\ idx' = idx + 1
    /\ fpc' = "parse"
    /\ UNCHANGED <<archive, limit, acteurs, organes, parseVars, pipeVars>>

\* after the loop: enrichment, dedup by id, sort, truncation, return
ReturnScrutins ==
    /\ fpc = "parse"
    /\ idx = Len(archive)
    /\ scrutins' = FinishFetch(scrutins, acteurs, organes, limit)
    /\ fpc' = "done"
    /\ UNCHANGED <<archive, limit, acteurs, organes, idx, parseVars, pipeVars>>

NextFetch == NoXmlFound \/ ParseEntry \/ ReturnScrutins

SpecFetch == InitFetch /\ [][NextFetch]_vars

-----------------------------------------------------------------------------
(* Properties of fetch_an_scrutins (SpecFetch) *)

\* the archive entries that yield a record
Yielding == {i \in 1..Len(archive) : ParseOneXml(archive[i]) # <<>>}

\* the enriched record of entry i
RecordOf(i) == EnrichScrutin(ParseOneXml(archive[i])[1], acteurs, organes)

ParsedIds == {RecordOf(i).id : i \in Yielding}

\* the record of the last entry, in archive order, that yielded the id
LastRecord(id) == RecordOf(Max({i \in Yielding : RecordOf(i).id = id}))

\* C1: the returned collection holds at most one record per id, and each
\* returned record is the whole record of the last archive entry with its id.
C1_LastEntryWins ==
    fpc = "done" =>
        /\ \A i, j \in 1..Len(scrutins) : i # j => scrutins[i].id # scrutins[j].id
        /\ \A i \in 1..Len(scrutins) : scrutins[i] = LastRecord(scrutins[i].id)

\* two entries yielded the same id with different dates and votes, and the
\* id was returned
C1_Witness ==
    /\ fpc = "done"
    /\ \E i, j \in Yielding :
          /\ i < j
          /\ RecordOf(i).id = RecordOf(j).id
          /\ RecordOf(i).date # RecordOf(j).date
          /\ RecordOf(i).votes # RecordOf(j).votes
          /\ \E k \in 1..Len(scrutins) : scrutins[k].id = RecordOf(i).id

\* C2: min(limit, n) records are returned, strictly descending by (date, id),
\* and every record left out is smaller than every record returned.
C2_TopLimitDescending ==
    fpc = "done" =>
        LET n == Cardinality(ParsedIds)
            returned == {scrutins[i].id : i \in 1..Len(scrutins)}
        IN /\ Len(scrutins) = IF limit < n THEN limit ELSE n
           /\ \A i, j \in 1..Len(scrutins) : i < j => KeyLess(scrutins[j], scrutins[i])
           /\ \A id \in ParsedIds \ returned :
                 \A i \in 1..Len(scrutins) : KeyLess(LastRecord(id), scrutins[i])

\* a limit below the number of distinct ids: two records returned, one left out
C2_Witness ==
    /\ fpc = "done"
    /\ Len(scrutins) >= 2
    /\ Cardinality(ParsedIds) > limit

\* the entries whose parsing raises, and the archive without them
Failing == {i \in 1..Len(archive) : Raises(archive[i])}

NotRaising(x) == ~Raises(x)

WithoutFailing(entries) == SelectSeq(entries, NotRaising)

\* C8 (as claimed): the outcome of the run is the outcome for the archive
\* with the failing entries removed.
C8_SameAsWithoutFailingEntries ==
    fpc \in {"done", "raised"} =>
        <<fpc, scrutins>> = FetchOutcome(WithoutFailing(archive), acteurs, organes, limit)

\* C8 (amended): a failing entry adds nothing and stops nothing: during the
\* pass the list holds the records of the parsed entries that do not fail,
\* the pass ends with every entry parsed, and the returned collection is the
\* one of the archive without its failing entries when some entry remains,
\* and empty when every entry fails (an archive without entries raises).
C8_SkipAndContinue ==
    /\ fpc \in {"open", "parse"} =>
          scrutins = ParseAll(WithoutFailing(SubSeq(archive, 1, idx)))
    /\ fpc = "done" =>
          /\ idx = Len(archive)
          /\ IF WithoutFailing(archive) # <<>>
                THEN <<fpc, scrutins>>
                        = FetchOutcome(WithoutFailing(archive), acteurs, organes, limit)
                ELSE scrutins = <<>>

\* a failing entry between two entries that parse, and records returned
C8_Witness ==
    /\ fpc = "done"
    /\ scrutins # <<>>
    /\ \E i \in Failing : \E h, j \in Yielding : h < i /\ i < j

-----------------------------------------------------------------------------
(* SpecPipe: generate.main after fetch_an_scrutins: normalize_an,           *)
(* assign_themes, export_all.  The scrutins are those fetch_an_scrutins     *)
(* returns for an archive; export_all advances one written file at a time.  *)

\* limit=100
MainLimit == 100

Budget == <<"B", "u", "d", "g", "e", "t">>
DNoYear == <<"i", "n", "c", "o", "n", "n", "u">>
DOld == <<"0", "8", "0", "0", "-", "0", "1", "-", "0", "1">>

PipeEntries ==
    { << El(0, "an", "scrutin", <<>>) >> \o Body(1, <<"1">>, D1, Budget, Absent, PO1, PA1),
      << El(0, "an", "scrutin", <<>>) >> \o Body(1, <<"2">>, D1, Absent, Absent, Absent, PA2),
      << El(0, "an", "scrutin", <<>>) >> \o Body(1, <<"3">>, D2, Budget, Absent, PO2, PA1),
      << El(0, "an", "scrutin", <<>>) >> \o Body(1, <<"4">>, DOld, Absent, Absent, Absent, PA1),
      << El(0, "an", "scrutin", <<>>) >> \o Body(1, <<"5">>, DNoYear, Absent, Absent, PO1, PA2) }

PipeArchives == UNION {[1..k -> PipeEntries] : k \in 1..MaxItems}

Fetched ==
    { FetchOutcome(a, act, org, MainLimit)[2] :
        a \in PipeArchives, act \in RegistryActeurs, org \in RegistryOrganes }

SBudget == <<"b", "u", "d", "g", "e", "t">>
SJustice == <<"j", "u", "s", "t", "i", "c", "e">>
SAgri == <<"a", "g", "r", "i">>

ThemePool ==
    { [slug |-> SBudget, label |-> Budget,
       keywords |-> << <<"f", "i", "s", "c">>, <<"B", "U", "D", "G", "E", "T">> >>],
      [slug |-> SJustice, label |-> SJustice, keywords |-> << <<"n", "o", "n">> >>],
      [slug |-> SAgri, label |-> SAgri, keywords |-> << <<"u", "d", "g">>, <<"b", "l", "e">> >>] }

Themes == UNION {[1..k -> ThemePool] : k \in 0..MaxThemes}

Overrides ==
    { <<>>,
      ScrutinId(<<"1">>) :> <<SJustice, SAgri, SJustice>> }

Configs == [themes : Themes, overrides : Overrides]

InitPipe ==
    /\ items \in Fetched
    /\ cfg \in Configs
    /\ index_doc = None
    /\ people_doc = None
    /\ year_docs = <<>>
    /\ by_year = <<>>
    /\ xpc = "fetched"
    /\ IdleParse /\ IdleFetch

Normalize ==
    /\ xpc = "fetched"
    /\ items' = NormalizeAn(items)
    /\ xpc' = "normalized"
    /\ UNCHANGED <<cfg, index_doc, people_doc, year_docs, by_year, parseVars, fetchVars>>

AssignThemesStep ==
    /\ xpc = "normalized"
    /\ items' = AssignThemes(items, cfg)
    /\ xpc' = "themed"
    /\ UNCHANGED <<cfg, index_doc, people_doc, year_docs, by_year, parseVars, fetchVars>>

\* export_all up to the first _write_json
WriteIndex ==
    /\ xpc = "themed"
    /\ index_doc' = IndexDoc(items)
    /\ xpc' = "index"
    /\ UNCHANGED <<cfg, items, people_doc, year_docs, by_year, parseVars, fetchVars>>

WritePeople ==
    /\ xpc = "index"
    /\ people_doc' = PeopleDoc(items)
    /\ xpc' = "people"
    /\ UNCHANGED <<cfg, items, index_doc, year_docs, by_year, parseVars, fetchVars>>

\* the partition loop, when every int(s["date"][:4]) succeeds
PartitionByYear ==
    /\ xpc = "people"
    /\ ~YearRaises(items)
    /\ by_year' = ByYear(items, 1, <<>>)
    /\ xpc' = "years"
    /\ UNCHANGED <<cfg, items, index_doc, people_doc, year_docs, parseVars, fetchVars>>

\* the partition loop, when int(s["date"][:4]) raises ValueError
PartitionRaises ==
    /\ xpc = "people"
    /\ YearRaises(items)
    /\ xpc' = "raised"
    /\ UNCHANGED <<cfg, items, index_doc, people_doc, year_docs, by_year, parseVars, fetchVars>>

\* one iteration of the loop over by_year.items(): file name -> document
WriteYear ==
    /\ xpc = "years"
    /\ by_year # <<>>
    /\ year_docs' = (IntToStr(Head(by_year)[1]) :> YearDoc(Head(by_year)[1], Head(by_year)[2]))
                    @@ year_docs
    /\ by_year' = Tail(by_year)
    /\ UNCHANGED <<cfg, items, index_doc, people_doc, xpc, parseVars, fetchVars>>

ExportReturns ==
    /\ xpc = "years"
    /\ by_year = <<>>
    /\ xpc' = "done"
    /\ UNCHANGED <<cfg, items, index_doc, people_doc, year_docs, by_year, parseVars, fetchVars>>

NextPipe ==
    \/ Normalize \/ AssignThemesStep \/ WriteIndex \/ WritePeople
    \/ PartitionByYear \/ PartitionRaises \/ WriteYear \/ ExportReturns

SpecPipe == InitPipe /\ [][NextPipe]_vars

-----------------------------------------------------------------------------
(* Properties of assign_themes and export_all (SpecPipe) *)

Themed == xpc \notin {"fetched", "normalized"}

Overridden(s) == s.id \in DOMAIN cfg.overrides

\* the slugs of the configured themes with a keyword in the text
Matching(text) ==
    { cfg.themes[i].slug : i \in
        { k \in 1..Len(cfg.themes) :
            \E w \in 1..Len(cfg.themes[k].keywords) :
                Contains(text, Lower(cfg.themes[k].keywords[w])) } }

\* C5: a scrutin whose id is a key of overrides has exactly the override's
\* list as themes, in its order and with its repetitions.
C5_OverrideIsAbsolute ==
    Themed =>
        \A i \in 1..Len(items) :
            Overridden(items[i]) => items[i].themes = cfg.overrides[items[i].id]

\* an overridden scrutin whose title matches a configured keyword got a list
\* that is neither sorted nor free of repetitions, and not the matched slugs
C5_Witness ==
    /\ Themed
    /\ \E i \in 1..Len(items) :
          /\ Overridden(items[i])
          /\ Matching(Lower(items[i].title)) # {}
          /\ items[i].themes # SortedStrings(Range(items[i].themes))
          /\ Range(items[i].themes) # Matching(Lower(items[i].title))

\* a missing or null value contributes the empty string
TextOf(v) == IF v = None THEN <<>> ELSE v

\* C6 (as claimed): a scrutin that is not overridden gets the sorted,
\* duplicate-free slugs of the themes with a keyword occurring,
\* case-insensitively, in title and object put together, a null object
\* adding no text.
C6_KeywordThemes ==
    Themed =>
        \A i \in 1..Len(items) :
            ~Overridden(items[i]) =>
                items[i].themes =
                    SortedStrings(Matching(
                        Lower(TextOf(items[i].title) \o <<" ">> \o TextOf(items[i].object))))

\* C7 (as claimed): once export_all has ended, every scrutin of the index
\* document is in exactly one per-year document, the one named by the first
\* four characters of its date.
C7_IndexedScrutinsPartitioned ==
    xpc \in {"done", "raised"} =>
        \A i \in 1..Len(index_doc.scrutins) :
            LET s == index_doc.scrutins[i] IN
            { y \in DOMAIN year_docs :
                \E k \in 1..Len(year_docs[y].scrutins) : year_docs[y].scrutins[k].id = s.id }
              = {Prefix(s.date, 4)}

=============================================================================
